---- MODULE Spec2Model ----
(***************************************************************************)
(* Model of torpedo's scheduler-operator registry (package schedops) and   *)
(* of the k8sutils reconciliation checks built on task.DoRetryWithTimeout. *)
(* Time is counted in seconds; every duration is a multiple of 5 seconds.  *)
(***************************************************************************)
EXTENDS Integers, Sequences, FiniteSets, TLC

\* ------------------------------------------------------------------ bounds
MaxAttemptTicks == 1      \* longest single predicate attempt, in 5s ticks
MaxTimeoutTicks == 12     \* longest timeout of a direct RunUntil call, in 5s ticks
MaxIntervalTicks == 2     \* longest interval of a direct RunUntil call, in 5s ticks
MaxBusyTicks == 1         \* total API latency of one reconciliation check, in 5s ticks
MaxReplicas == 1          \* largest replica count reported by the API
MaxReplicaSets == 2       \* longest replica-set listing
MaxPods == 2              \* longest pod listing
MaxRegistrations == 2     \* Register calls recorded per name
MaxConditions == 2        \* longest condition list of a node
MaxContainers == 2        \* most init containers, and most containers, of a pod
MaxLabelChanges == 2      \* changes of the node by other API clients
MaxConcTicks == 2         \* longest timeout of a concurrent invocation, in 5 s

\* ---------------------------------------------------------------- values
NoError == [type |-> "nil", ID |-> "", Cause |-> <<>>]
Pending == [type |-> "pending", ID |-> "", Cause |-> <<>>]

NilDriver == "nil"
Absent == "absent"
Names == {"k8s", "dcos"}
Drivers == {"d1", "d2"}
DriverArgs == Drivers \cup {NilDriver}
NoRegError == [type |-> "nil", ID |-> "", Type |-> ""]

VARIABLES
    schedOpsRegistry,   \* schedops.go: the name -> Driver map (Absent = no key)
    registered,         \* history: the drivers passed to Register, per name
    regCall,            \* the latest registry call and what it returned
    pc,                 \* position of the validator call
    kind,               \* which check runs: RunUntil, deployment, teardown, pvc
    timeout, interval,  \* the retry policy of the call
    clock,              \* wall-clock seconds elapsed since the call started
    busy,               \* history: seconds of the call spent inside attempts
    attempts, sleeps,   \* predicate invocations and sleeps of the call
    lastObs,            \* what the attempt under way or just finished read from the API
    opErr,              \* what the attempt just finished returned
    firstErr,           \* history: the first failure of a RunUntil call
    result,             \* what the call returned
    fn, input, output,  \* the helper applied last, its argument and its result
    labelPc,            \* position of the label call
    labelOp,            \* which label call runs: add or remove
    retryCnt,           \* AddLabelOnNode / RemoveLabelOnNode: retryCnt
    node,               \* the node object held by the loop body
    nodeRead,           \* history: the attempt and outcome of the latest node read
    funcErr,            \* the function-scope err of the label call
    loopErr,            \* the err declared inside the loop body
    labelRet,           \* what the label call returned
    serverNode,         \* the node's label and resource version as stored by the API
    updateOk,           \* history: an Update of this call succeeded
    failedUpdates,      \* history: Updates of this call that failed
    calls               \* the validator invocations running side by side

regVars == <<schedOpsRegistry, registered, regCall>>
valVars == <<pc, kind, timeout, interval, clock, busy, attempts, sleeps, lastObs,
             opErr, firstErr, result>>
pureVars == <<fn, input, output>>
labelVars == <<labelPc, labelOp, retryCnt, node, nodeRead, funcErr, loopErr,
               labelRet, serverNode, updateOk, failedUpdates>>
auxVars == <<fn, input, output, labelPc, labelOp, retryCnt, node, nodeRead,
             funcErr, loopErr, labelRet, serverNode, updateOk, failedUpdates,
             calls>>
vars == <<schedOpsRegistry, registered, regCall, pc, kind, timeout,
          interval, clock, busy, attempts, sleeps, lastObs, opErr, firstErr,
          result, fn, input, output, labelPc, labelOp, retryCnt, node,
          nodeRead, funcErr, loopErr, labelRet, serverNode, updateOk,
          failedUpdates, calls>>

\* ------------------------------------------------------ schedops registry
NotFound(name) ==
    [type |-> "ErrNotFound", ID |-> name, Type |-> "Portworx Scheduler Operator"]

RegisterKeepFirst(registry, name, d) ==
    IF registry[name] = Absent THEN [registry EXCEPT ![name] = d] ELSE registry

RegisterMap(registry, name, d) ==
    [registry EXCEPT ![name] = d]

GetDefault(registry, name) ==
    IF registry[name] # Absent
    THEN [driver |-> registry[name], err |-> NoRegError]
    ELSE [driver |-> "d1", err |-> NotFound(name)]

GetMap(registry, name) ==
    IF registry[name] # Absent
    THEN [driver |-> registry[name], err |-> NoRegError]
    ELSE [driver |-> NilDriver, err |-> NotFound(name)]

Register(name, d) ==
    /\ Len(registered[name]) < MaxRegistrations
    /\ schedOpsRegistry' = RegisterMap(schedOpsRegistry, name, d)
    /\ registered' = [registered EXCEPT ![name] = Append(@, d)]
    /\ regCall' = [op |-> "Register", name |-> name, driver |-> d,
                   err |-> NoRegError]
    /\ UNCHANGED valVars
    /\ UNCHANGED auxVars

MapAfterGetInserts(registry, name) ==
    IF registry[name] = Absent THEN [registry EXCEPT ![name] = NilDriver]
    ELSE registry

\* the map once Get has read it: `d, ok := schedOpsRegistry[name]`
MapAfterGet(registry, name) == registry

Get(name) ==
    /\ regCall' = [op |-> "Get", name |-> name,
                   driver |-> GetMap(schedOpsRegistry, name).driver,
                   err |-> GetMap(schedOpsRegistry, name).err]
    /\ schedOpsRegistry' = MapAfterGet(schedOpsRegistry, name)
    /\ UNCHANGED registered
    /\ UNCHANGED valVars
    /\ UNCHANGED auxVars

RegisterAny == \E name \in Names, d \in DriverArgs : Register(name, d)
GetAny == \E name \in Names : Get(name)

\* ------------------------------------------------------------------ Init
NoObs == [api |-> "none"]
NotApplied == [applied |-> FALSE]
NoLabel == "absent"
NoNode == [label |-> NoLabel, version |-> 0 - 1]
Invocations == {1, 2}
IdleCall == [pc |-> "idle", timeout |-> 0, elapsed |-> 0, attempts |-> 0,
             sleeps |-> 0, inFlight |-> 0, need |-> 0,
             result |-> "pending"]

InitRest ==
    /\ schedOpsRegistry = [n \in Names |-> Absent]
    /\ registered = [n \in Names |-> <<>>]
    /\ regCall = [op |-> "none", name |-> "", driver |-> NilDriver,
                  err |-> NoRegError]
    /\ pc = "idle"
    /\ kind = "none"
    /\ timeout = 0
    /\ interval = 0
    /\ clock = 0
    /\ busy = 0
    /\ attempts = 0
    /\ sleeps = 0
    /\ lastObs = NoObs
    /\ opErr = NoError
    /\ firstErr = NoError
    /\ result = Pending
    /\ labelPc = "idle"
    /\ labelOp = "none"
    /\ retryCnt = 0
    /\ node = NoNode
    /\ nodeRead = [at |-> 0, node |-> NoNode, err |-> NoError]
    /\ funcErr = NoError
    /\ loopErr = NoError
    /\ labelRet = Pending
    /\ serverNode = [label |-> NoLabel, version |-> 0]
    /\ updateOk = FALSE
    /\ failedUpdates = 0
    /\ calls = [p \in Invocations |-> IdleCall]

Init ==
    /\ InitRest
    /\ fn = "none"
    /\ input = <<>>
    /\ output = NotApplied

NextRegistry == RegisterAny \/ GetAny
SpecRegistry == Init /\ [][NextRegistry]_vars

\* ------------------------------------------- task.DoRetryWithTimeout
\* RunUntil(op, timeout, interval): invoke op; on success return at once; on
\* failure return it when the elapsed time has reached the timeout, else
\* sleep the interval and retry.
Durations == {5 * k : k \in 0..MaxAttemptTicks}
Timeouts == {5 * k : k \in 0..MaxTimeoutTicks}
Intervals == {5 * k : k \in 1..MaxIntervalTicks}
ErrVals == {[type |-> "error", ID |-> "", Cause |-> <<c>>] : c \in {"e1", "e2"}}

TimedOutEarly(elapsed, t) == elapsed + 5 >= t

TimedOut(elapsed, t) == elapsed >= t

CarriedFirst(first, last) == IF first # NoError THEN first ELSE last

Carried(first, last) == last

SleepTwice(i) == 2 * i

SleepFor(i) == i

StartCall(k, t, i) ==
    /\ pc = "idle"
    /\ pc' = "attempt"
    /\ kind' = k
    /\ timeout' = t
    /\ interval' = i
    /\ clock' = 0
    /\ busy' = 0
    /\ attempts' = 0
    /\ sleeps' = 0
    /\ lastObs' = NoObs
    /\ opErr' = NoError
    /\ firstErr' = NoError
    /\ result' = Pending
    /\ UNCHANGED regVars
    /\ UNCHANGED auxVars

\* the loop body once op has returned err after d seconds
AfterAttempt(err, d) ==
    LET first == IF kind = "RunUntil" /\ firstErr = NoError THEN err
                 ELSE firstErr
    IN  /\ clock' = clock + d
        /\ busy' = busy + d
        /\ attempts' = attempts + 1
        /\ opErr' = err
        /\ firstErr' = first
        /\ IF err = NoError
           THEN pc' = "done" /\ result' = NoError
           ELSE IF TimedOut(clock + d, timeout)
                THEN pc' = "done" /\ result' = Carried(first, err)
                ELSE pc' = "sleeping" /\ result' = Pending
        /\ UNCHANGED <<kind, timeout, interval, sleeps>>
        /\ UNCHANGED regVars
        /\ UNCHANGED auxVars

Sleep ==
    /\ pc = "sleeping"
    /\ pc' = "attempt"
    /\ clock' = clock + SleepFor(interval)
    /\ sleeps' = sleeps + 1
    /\ lastObs' = NoObs
    /\ opErr' = NoError
    /\ UNCHANGED <<kind, timeout, interval, busy, attempts, firstErr, result>>
    /\ UNCHANGED regVars
    /\ UNCHANGED auxVars

Return ==
    /\ pc = "done"
    /\ pc' = "idle"
    /\ UNCHANGED <<kind, timeout, interval, clock, busy, attempts, sleeps,
                   lastObs, opErr, firstErr, result>>
    /\ UNCHANGED regVars
    /\ UNCHANGED auxVars

\* a direct call with a caller-supplied predicate and policy
RunUntil == \E t \in Timeouts, i \in Intervals : StartCall("RunUntil", t, i)

AttemptOp ==
    /\ pc = "attempt"
    /\ kind = "RunUntil"
    /\ lastObs' = NoObs
    /\ \E err \in ErrVals \cup {NoError}, d \in Durations : AfterAttempt(err, d)

NextRunUntil == RunUntil \/ AttemptOp \/ Sleep \/ Return
SpecRunUntil == Init /\ [][NextRunUntil]_vars
FairRunUntil == SpecRunUntil /\ WF_vars(AttemptOp) /\ WF_vars(Sleep)

\* ------------------------------------------------ k8sutils: API responses
DeploymentName == "web"
ClaimName == "data"
ReplicaSetNames == {"rs1", "rs2"}

APIError(text) == [type |-> "error", ID |-> "", Cause |-> text]

\* GetK8sClient fails
ErrK8SApiAccountNotSet == APIError(<<"k8s api account not set">>)
\* the API answers 404 for the resource
ErrNotFoundStatus(resource, name) ==
    APIError(<<resource, name, " not found">>)
\* the API answers 403, naming a role binding that does not resolve
ErrForbidden(resource, name) ==
    APIError(<<resource, name, " is forbidden: clusterrole torpedo-role",
               " not found">>)
\* the API cannot be reached
ErrUnreachable == APIError(<<"connection refused">>)

GetErrors(resource, name) ==
    {ErrK8SApiAccountNotSet, ErrNotFoundStatus(resource, name),
     ErrForbidden(resource, name), ErrUnreachable}
ListErrors == {ErrK8SApiAccountNotSet, ErrUnreachable}

SeqsUpTo(S, n) == UNION {[1..k -> S] : k \in 0..n}

NoDeployment == [name |-> "", replicas |-> 0, available |-> 0, ready |-> 0]
Deployments ==
    [name : {DeploymentName}, replicas : 0..MaxReplicas,
     available : 0..MaxReplicas, ready : 0..MaxReplicas]
DeploymentResponses ==
    {[err |-> e, dep |-> NoDeployment] :
        e \in GetErrors("deployments.apps", DeploymentName)}
    \cup {[err |-> NoError, dep |-> dep] : dep \in Deployments}

NoReplicaSet == [name |-> "", owners |-> <<>>]
ReplicaSets ==
    [name : ReplicaSetNames,
     owners : {<<>>, <<DeploymentName>>, <<"other">>}]
ReplicaSetResponses ==
    {[err |-> e, items |-> <<>>] : e \in ListErrors}
    \cup {[err |-> NoError, items |-> items] :
            items \in SeqsUpTo(ReplicaSets, MaxReplicaSets)}

\* init and containers hold, per container status, whether State.Running is set
Pods ==
    [owners : {<<r>> : r \in ReplicaSetNames},
     init : {<<>>, <<TRUE>>},
     containers : {<<TRUE>>, <<FALSE>>}]
PodResponses ==
    {[err |-> e, items |-> <<>>] : e \in ListErrors}
    \cup {[err |-> NoError, items |-> items] :
            items \in SeqsUpTo(Pods, MaxPods)}

ClaimPhases == {"Pending", "Bound", "Lost", ""}
NoClaim == [name |-> "", phase |-> ""]
ClaimResponses ==
    {[err |-> e, pvc |-> NoClaim] :
        e \in GetErrors("persistentvolumeclaims", ClaimName)}
    \cup {[err |-> NoError, pvc |-> [name |-> ClaimName, phase |-> ph]] :
            ph \in ClaimPhases}

\* ------------------------------------------------- k8sutils: pure helpers
ErrAppNotReady(id, cause) ==
    [type |-> "ErrAppNotReady", ID |-> id, Cause |-> cause]
ErrAppNotTerminated(id, cause) ==
    [type |-> "ErrAppNotTerminated", ID |-> id, Cause |-> cause]
ErrPVCNotReady(id, cause) ==
    [type |-> "ErrPVCNotReady", ID |-> id, Cause |-> cause]

IsPodRunningIgnoreInit(pod) ==
    \A i \in DOMAIN pod.containers : pod.containers[i]

IsPodRunning(pod) ==
    /\ \A i \in DOMAIN pod.init : ~pod.init[i]
    /\ \A i \in DOMAIN pod.containers : pod.containers[i]

\* regexp.MatchString(".+ not found", err.Error()): the phrase occurs with
\* at least one character of text before it
MatchNotFoundWholeText(err) == err.Cause = <<" not found">>

MatchNotFound(err) ==
    \E i \in 2..Len(err.Cause) : err.Cause[i] = " not found"

Owns(owners, name) == \E i \in DOMAIN owners : owners[i] = name

FirstOwnedAny(items, name) == IF items # <<>> THEN 1 ELSE 0

\* index of the first item with an owner reference of that name, 0 if none
FirstOwned(items, name) ==
    IF \E i \in DOMAIN items : Owns(items[i].owners, name)
    THEN CHOOSE i \in DOMAIN items :
            /\ Owns(items[i].owners, name)
            /\ \A j \in 1..(i - 1) : ~Owns(items[j].owners, name)
    ELSE 0

\* one copy of the item per owner reference of that name
RECURSIVE Copies(_, _, _)
Copies(item, owners, name) ==
    IF owners = <<>> THEN <<>>
    ELSE (IF Head(owners) = name THEN <<item>> ELSE <<>>)
         \o Copies(item, Tail(owners), name)

RECURSIVE OwnedBy(_, _)
OwnedBy(items, name) ==
    IF items = <<>> THEN <<>>
    ELSE Copies(Head(items), Head(items).owners, name)
         \o OwnedBy(Tail(items), name)

\* a nil slice and an empty one are both <<>>: the code never builds an
\* empty non-nil slice
NoPods == [pods |-> <<>>, err |-> NoError]

GetReplicaSetPods(rSet, podResp) ==
    IF podResp.err # NoError THEN [pods |-> <<>>, err |-> podResp.err]
    ELSE [pods |-> OwnedBy(podResp.items, rSet.name), err |-> NoError]

GetDeploymentPods(name, rsResp, podResp) ==
    IF rsResp.err # NoError THEN [pods |-> <<>>, err |-> rsResp.err]
    ELSE IF FirstOwned(rsResp.items, name) = 0 THEN NoPods
    ELSE GetReplicaSetPods(rsResp.items[FirstOwned(rsResp.items, name)],
                           podResp)

GetCheckNotFoundNil(e) == IF MatchNotFound(e) THEN NoError ELSE e

\* ValidateDeployement and ValidatePersistentVolumeClaim, predicate t: what
\* is returned when the Get of the resource fails with e
GetCheck(e) == e

\* ValidateDeployement, predicate t, after the deployment was read
ReplicaCheck(dep) ==
    IF dep.replicas # dep.available
    THEN ErrAppNotReady(dep.name, <<"Expected replicas", "Available replicas">>)
    ELSE IF dep.replicas # dep.ready
    THEN ErrAppNotReady(dep.name, <<"Expected replicas", "Ready replicas">>)
    ELSE NoError

ReadyPodsCheckNoNil(dep, res) ==
    IF res.err # NoError
    THEN ErrAppNotReady(dep.name, <<"Failed to get pods for deployment">>)
    ELSE IF \E i \in DOMAIN res.pods : ~IsPodRunning(res.pods[i])
    THEN ErrAppNotReady(dep.name, <<"pod is not yet ready">>)
    ELSE NoError

ReadyPodsCheck(dep, res) ==
    IF res.err # NoError \/ res.pods = <<>>
    THEN ErrAppNotReady(dep.name, <<"Failed to get pods for deployment">>)
    ELSE IF \E i \in DOMAIN res.pods : ~IsPodRunning(res.pods[i])
    THEN ErrAppNotReady(dep.name, <<"pod is not yet ready">>)
    ELSE NoError

\* ValidateTerminatedDeployment, predicate t
TerminatedGetCheck(err) ==
    IF MatchNotFound(err) THEN NoError ELSE err

TerminatedPodsCheckErrOnly(dep, res) ==
    IF res.err # NoError
    THEN ErrAppNotTerminated(dep.name, <<"Failed to get pods for deployment">>)
    ELSE NoError

TerminatedPodsCheck(dep, res) ==
    IF res.err # NoError
    THEN ErrAppNotTerminated(dep.name, <<"Failed to get pods for deployment">>)
    ELSE IF Len(res.pods) > 0
    THEN ErrAppNotTerminated(dep.name, <<"pods is still present">>)
    ELSE NoError

\* ValidatePersistentVolumeClaim, predicate t
ClaimCheckNotPending(pvc) ==
    IF pvc.phase # "Pending" THEN NoError
    ELSE ErrPVCNotReady(pvc.name, <<"PVC expected status", "PVC actual status">>)

ClaimCheck(pvc) ==
    IF pvc.phase = "Bound" THEN NoError
    ELSE ErrPVCNotReady(pvc.name, <<"PVC expected status", "PVC actual status">>)

\* ------------------------------------------- k8sutils: validation calls
ApiDurations == {d \in Durations : busy + d <= 5 * MaxBusyTicks}

Observed(resp) ==
    [get |-> resp, listed |-> FALSE, rs |-> NoReplicaSet, pods |-> NoPods]

\* the predicate goes on to its next API call after d seconds
Continue(next, d) ==
    /\ pc' = next
    /\ clock' = clock + d
    /\ busy' = busy + d
    /\ UNCHANGED <<kind, timeout, interval, attempts, sleeps, opErr,
                   firstErr, result>>
    /\ UNCHANGED regVars
    /\ UNCHANGED auxVars

ValidateDeployementTimeout == 10 * 60
ValidateTerminatedDeploymentTimeout == 10 * 60
ValidatePersistentVolumeClaimTimeout == 5 * 60
TimeBeforeRetry == 1 * 10

ValidateDeployement ==
    StartCall("deployment", ValidateDeployementTimeout, TimeBeforeRetry)

ValidateTerminatedDeployment ==
    StartCall("teardown", ValidateTerminatedDeploymentTimeout, TimeBeforeRetry)

ValidatePersistentVolumeClaim ==
    StartCall("pvc", ValidatePersistentVolumeClaimTimeout, TimeBeforeRetry)

\* ValidateDeployement's predicate up to its call of GetDeploymentPods
DeploymentGet ==
    /\ pc = "attempt"
    /\ kind = "deployment"
    /\ \E resp \in DeploymentResponses, d \in ApiDurations :
         /\ lastObs' = Observed(resp)
         /\ IF resp.err # NoError THEN AfterAttempt(GetCheck(resp.err), d)
            ELSE IF ReplicaCheck(resp.dep) # NoError
                 THEN AfterAttempt(ReplicaCheck(resp.dep), d)
                 ELSE Continue("listReplicaSets", d)

\* ValidateTerminatedDeployment's predicate up to its call of GetDeploymentPods
TerminatedGet ==
    /\ pc = "attempt"
    /\ kind = "teardown"
    /\ \E resp \in DeploymentResponses, d \in ApiDurations :
         /\ lastObs' = Observed([resp EXCEPT !.dep.replicas = 0,
                                               !.dep.available = 0,
                                               !.dep.ready = 0])
         /\ IF resp.err # NoError
            THEN AfterAttempt(TerminatedGetCheck(resp.err), d)
            ELSE Continue("listReplicaSets", d)

\* what the predicate returns once GetDeploymentPods has returned res
PodsVerdict(res) ==
    IF kind = "deployment" THEN ReadyPodsCheck(lastObs.get.dep, res)
    ELSE TerminatedPodsCheck(lastObs.get.dep, res)

\* GetDeploymentPods up to its call of GetReplicaSetPods
ReplicaSetsList ==
    /\ pc = "listReplicaSets"
    /\ \E resp \in ReplicaSetResponses, d \in ApiDurations :
         IF resp.err # NoError \/ FirstOwned(resp.items, DeploymentName) = 0
         THEN /\ lastObs' = [lastObs EXCEPT !.listed = TRUE,
                    !.pods = GetDeploymentPods(DeploymentName, resp,
                                               [err |-> NoError, items |-> <<>>])]
              /\ AfterAttempt(PodsVerdict(
                    GetDeploymentPods(DeploymentName, resp,
                                      [err |-> NoError, items |-> <<>>])), d)
         ELSE /\ lastObs' = [lastObs EXCEPT !.listed = TRUE,
                    !.rs = resp.items[FirstOwned(resp.items, DeploymentName)]]
              /\ Continue("listPods", d)

\* GetReplicaSetPods for the replica set found, and the rest of the predicate
PodsList ==
    /\ pc = "listPods"
    /\ \E resp \in PodResponses, d \in ApiDurations :
         /\ lastObs' = [lastObs EXCEPT
                            !.pods = GetReplicaSetPods(lastObs.rs, resp)]
         /\ AfterAttempt(PodsVerdict(GetReplicaSetPods(lastObs.rs, resp)), d)

\* ValidatePersistentVolumeClaim's predicate
ClaimGet ==
    /\ pc = "attempt"
    /\ kind = "pvc"
    /\ \E resp \in ClaimResponses, d \in ApiDurations :
         /\ lastObs' = Observed(resp)
         /\ IF resp.err # NoError THEN AfterAttempt(GetCheck(resp.err), d)
            ELSE AfterAttempt(ClaimCheck(resp.pvc), d)

NextValidate ==
    \/ ValidateDeployement
    \/ ValidateTerminatedDeployment
    \/ ValidatePersistentVolumeClaim
    \/ DeploymentGet
    \/ TerminatedGet
    \/ ReplicaSetsList
    \/ PodsList
    \/ ClaimGet
    \/ Sleep
    \/ Return
SpecValidate == Init /\ [][NextValidate]_vars

\* ------------------------------------------------ k8sutils: IsNodeReady
NodeName == "node1"
PressureTypes ==
    {"OutOfDisk", "MemoryPressure", "DiskPressure", "NetworkUnavailable",
     "InodePressure"}
NodeConditionTypes == {"Ready", "KernelDeadlock"} \cup PressureTypes
ConditionStatuses == {"True", "False", "Unknown"}
NodeConditions ==
    [type : NodeConditionTypes, status : ConditionStatuses,
     message : {"kubelet message"},
     reason : {"KubeletReady", "KubeletNotReady"}]
NodeResponses ==
    {[err |-> e, conditions |-> <<>>] : e \in GetErrors("nodes", NodeName)}
    \cup {[err |-> NoError, conditions |-> cs] :
            cs \in SeqsUpTo(NodeConditions, MaxConditions)}

\* the switch of IsNodeReady makes the loop return for this condition
ConditionViolatedReadyOnly(c) ==
    c.type = "Ready" /\ c.status # "True"

ConditionViolated(c) ==
    \/ c.type = "Ready" /\ c.status # "True"
    \/ c.type \in PressureTypes /\ c.status # "False"

NotReadyError(name, c) ==
    [type |-> "error", ID |-> name,
     Cause |-> <<c.type, c.message, c.status, c.reason>>]

RECURSIVE CheckConditions(_, _)
CheckConditions(name, conds) ==
    IF conds = <<>> THEN NoError
    ELSE IF ConditionViolated(Head(conds))
         THEN NotReadyError(name, Head(conds))
         ELSE CheckConditions(name, Tail(conds))

IsNodeReady(name, resp) ==
    IF resp.err # NoError THEN resp.err
    ELSE CheckConditions(name, resp.conditions)

\* --------------------------------------- k8sutils: helpers applied alone
PodStatuses ==
    [owners : {<<>>}, init : SeqsUpTo(BOOLEAN, MaxContainers),
     containers : SeqsUpTo(BOOLEAN, MaxContainers)]

\* GetDeploymentPods reaches its call of GetReplicaSetPods, which lists pods
ListsPods(name, rsResp) ==
    rsResp.err = NoError /\ FirstOwned(rsResp.items, name) # 0

PureInputs(f) ==
    IF f = "IsNodeReady" THEN NodeResponses
    ELSE IF f = "IsPodRunning" THEN PodStatuses
    ELSE [rs : ReplicaSetResponses, pods : PodResponses]

InitPure ==
    /\ InitRest
    /\ output = NotApplied
    /\ \E f \in {"IsNodeReady", "IsPodRunning", "GetDeploymentPods"} :
          fn = f /\ input \in PureInputs(f)

Applied(out) ==
    /\ ~output.applied
    /\ output' = out
    /\ UNCHANGED <<fn, input>>
    /\ UNCHANGED <<regVars, valVars, labelVars, calls>>

ApplyIsNodeReady ==
    /\ fn = "IsNodeReady"
    /\ Applied([applied |-> TRUE, err |-> IsNodeReady(NodeName, input)])

ApplyIsPodRunning ==
    /\ fn = "IsPodRunning"
    /\ Applied([applied |-> TRUE, running |-> IsPodRunning(input)])

ApplyGetDeploymentPods ==
    /\ fn = "GetDeploymentPods"
    /\ Applied([applied |-> TRUE,
                res |-> GetDeploymentPods(DeploymentName, input.rs, input.pods),
                listedPods |-> ListsPods(DeploymentName, input.rs)])

NextPure == ApplyIsNodeReady \/ ApplyIsPodRunning \/ ApplyGetDeploymentPods
SpecPure == InitPure /\ [][NextPure]_vars

\* ------------------------- k8sutils: AddLabelOnNode, RemoveLabelOnNode
k8sLabelUpdateMaxRetries == 5
LabelValue == "v"
LabelValues == {LabelValue, "w"}
ErrConflict == APIError(<<"the object has been modified">>)
NodeGetErrors == {ErrNotFoundStatus("nodes", NodeName), ErrUnreachable}
UpdateErrors == {ErrUnreachable}

\* another API client relabels the node
LabelChanged ==
    /\ serverNode.version < MaxLabelChanges
    /\ \E l \in LabelValues \cup {NoLabel} :
          /\ l # serverNode.label
          /\ serverNode' = [label |-> l, version |-> serverNode.version + 1]
    /\ UNCHANGED <<labelPc, labelOp, retryCnt, node, nodeRead, funcErr,
                   loopErr, labelRet, updateOk, failedUpdates>>
    /\ UNCHANGED <<regVars, valVars, pureVars, calls>>

\* the call up to its loop: GetK8sClient, retryCnt := 0
StartLabelCall(op) ==
    /\ labelPc = "idle"
    /\ labelOp' = op
    /\ retryCnt' = 0
    /\ \E e \in {NoError, ErrK8SApiAccountNotSet} :
          /\ funcErr' = e
          /\ IF e # NoError
             THEN labelPc' = "done" /\ labelRet' = e
             ELSE labelPc' = "loop" /\ labelRet' = Pending
    /\ UNCHANGED <<node, nodeRead, loopErr, serverNode, updateOk,
                   failedUpdates>>
    /\ UNCHANGED <<regVars, valVars, pureVars, calls>>

AddLabelOnNode == StartLabelCall("add")

RemoveLabelOnNode == StartLabelCall("remove")

ReadNodeOnce(held, stored) == IF held = NoNode THEN stored ELSE held

\* the node object an attempt works on: the result of its own Get
ReadNode(held, stored) == stored

\* the loop body from retryCnt++ up to its call of Update
NodeGet ==
    /\ labelPc = "loop"
    /\ retryCnt < k8sLabelUpdateMaxRetries
    /\ retryCnt' = retryCnt + 1
    /\ \E e \in NodeGetErrors \cup {NoError} :
          IF e # NoError
          THEN /\ loopErr' = e
               /\ nodeRead' = [at |-> retryCnt + 1, node |-> NoNode, err |-> e]
               /\ labelPc' = "done"
               /\ labelRet' = e
               /\ UNCHANGED node
          ELSE /\ loopErr' = NoError
               /\ nodeRead' = [at |-> retryCnt + 1, node |-> serverNode,
                               err |-> NoError]
               /\ IF labelOp = "add"
                  THEN IF ReadNode(node, serverNode).label = LabelValue
                       THEN /\ node' = ReadNode(node, serverNode)
                            /\ labelPc' = "done"
                            /\ labelRet' = NoError
                       ELSE /\ node' = [ReadNode(node, serverNode)
                                           EXCEPT !.label = LabelValue]
                            /\ labelPc' = "update"
                            /\ UNCHANGED labelRet
                  ELSE IF ReadNode(node, serverNode).label # NoLabel
                       THEN /\ node' = [ReadNode(node, serverNode)
                                           EXCEPT !.label = NoLabel]
                            /\ labelPc' = "update"
                            /\ UNCHANGED labelRet
                       ELSE /\ node' = ReadNode(node, serverNode)
                            /\ labelPc' = "loop"
                            /\ UNCHANGED labelRet
    /\ UNCHANGED <<labelOp, funcErr, serverNode, updateOk, failedUpdates>>
    /\ UNCHANGED <<regVars, valVars, pureVars, calls>>

\* Nodes().Update(node) and the test of its error
NodeUpdate ==
    /\ labelPc = "update"
    /\ \E e \in UpdateErrors \cup {NoError} :
          LET ue == IF e # NoError THEN e
                    ELSE IF node.version # serverNode.version THEN ErrConflict
                    ELSE NoError
          IN  /\ loopErr' = ue
              /\ IF ue = NoError
                 THEN /\ serverNode' = [label |-> node.label,
                                        version |-> serverNode.version + 1]
                      /\ updateOk' = TRUE
                      /\ labelPc' = "done"
                      /\ labelRet' = NoError
                      /\ UNCHANGED failedUpdates
                 ELSE /\ failedUpdates' = failedUpdates + 1
                      /\ labelPc' = "loop"
                      /\ UNCHANGED <<serverNode, updateOk, labelRet>>
    /\ UNCHANGED <<labelOp, retryCnt, node, nodeRead, funcErr>>
    /\ UNCHANGED <<regVars, valVars, pureVars, calls>>

\* `return err` after the loop: the loop body declares its own err with
\* `node, err :=`, so this err is the one set by GetK8sClient
ReturnedAfterLoop(fErr, lErr) == fErr

LoopExit ==
    /\ labelPc = "loop"
    /\ retryCnt >= k8sLabelUpdateMaxRetries
    /\ labelPc' = "done"
    /\ labelRet' = ReturnedAfterLoop(funcErr, loopErr)
    /\ UNCHANGED <<labelOp, retryCnt, node, nodeRead, funcErr, loopErr,
                   serverNode, updateOk, failedUpdates>>
    /\ UNCHANGED <<regVars, valVars, pureVars, calls>>

NextLabel ==
    \/ LabelChanged
    \/ AddLabelOnNode
    \/ RemoveLabelOnNode
    \/ NodeGet
    \/ NodeUpdate
    \/ LoopExit
SpecLabel == Init /\ [][NextLabel]_vars
FairLabel ==
    SpecLabel /\ WF_vars(NodeGet) /\ WF_vars(NodeUpdate) /\ WF_vars(LoopExit)

\* --------------------------------- concurrent Validator invocations
\* Each invocation runs the loop of DoRetryWithTimeout on its own record;
\* its predicate fails until attempt `need` (0: it never succeeds).
ConcTimeouts == {5 * k : k \in 0..MaxConcTicks}
ConcInterval == 5
Needs == 0..(MaxConcTicks + 1)

MayStartEager(c) == c.pc \in {"attempt", "running"}

\* an attempt starts only at the loop head, with none in flight
MayStart(c) == c.pc = "attempt" /\ c.inFlight = 0

StartInvocation(p) ==
    /\ calls[p].pc = "idle"
    /\ \E t \in ConcTimeouts, n \in Needs :
          calls' = [calls EXCEPT ![p] =
                       [IdleCall EXCEPT !.pc = "attempt", !.timeout = t,
                                        !.need = n]]
    /\ UNCHANGED <<regVars, valVars, pureVars, labelVars>>

BeginAttempt(p) ==
    /\ MayStart(calls[p])
    /\ calls' = [calls EXCEPT ![p].pc = "running",
                              ![p].attempts = @ + 1,
                              ![p].inFlight = @ + 1]
    /\ UNCHANGED <<regVars, valVars, pureVars, labelVars>>

EndAttempt(p) ==
    LET c == calls[p]
    IN  /\ c.inFlight > 0
        /\ calls' = [calls EXCEPT ![p] =
              IF c.attempts = c.need
              THEN [c EXCEPT !.inFlight = @ - 1, !.pc = "done",
                             !.result = "ok"]
              ELSE IF TimedOut(c.elapsed, c.timeout)
              THEN [c EXCEPT !.inFlight = @ - 1, !.pc = "done",
                             !.result = "timeout"]
              ELSE [c EXCEPT !.inFlight = @ - 1, !.pc = "sleeping"]]
        /\ UNCHANGED <<regVars, valVars, pureVars, labelVars>>

SleepInvocation(p) ==
    /\ calls[p].pc = "sleeping"
    /\ calls' = [calls EXCEPT ![p].pc = "attempt",
                              ![p].elapsed = @ + SleepFor(ConcInterval),
                              ![p].sleeps = @ + 1]
    /\ UNCHANGED <<regVars, valVars, pureVars, labelVars>>

ReturnInvocation(p) ==
    /\ calls[p].pc = "done"
    /\ calls' = [calls EXCEPT ![p] = IdleCall]
    /\ UNCHANGED <<regVars, valVars, pureVars, labelVars>>

NextConcurrent ==
    \E p \in Invocations :
        \/ StartInvocation(p)
        \/ BeginAttempt(p)
        \/ EndAttempt(p)
        \/ SleepInvocation(p)
        \/ ReturnInvocation(p)
SpecConcurrent == Init /\ [][NextConcurrent]_vars

\* ----------------------------------------------------------------- claims
LastRegistered(n) == registered[n][Len(registered[n])]

\* C1: after any sequence of Register calls, Get(n) resolves the driver of
\* the most recent Register(n, .) with a nil error (an earlier driver of the
\* same name is gone, registering another name changes nothing for n), and
\* every Register call returns nil.
C1_LastWriteWins ==
    /\ \A n \in Names :
          registered[n] # <<>> =>
              GetMap(schedOpsRegistry, n) =
                  [driver |-> LastRegistered(n), err |-> NoRegError]
    /\ regCall.op = "Register" => regCall.err = NoRegError
    /\ (regCall.op = "Get" /\ registered[regCall.name] # <<>>) =>
          /\ regCall.driver = LastRegistered(regCall.name)
          /\ regCall.err = NoRegError

\* a name registered twice with different drivers, another name registered
\* as well, and the twice-registered name just resolved
C1_Witness ==
    /\ regCall.op = "Get"
    /\ Len(registered[regCall.name]) = 2
    /\ registered[regCall.name][1] # registered[regCall.name][2]
    /\ \E m \in Names : m # regCall.name /\ registered[m] # <<>>

\* C2: Get of a name never passed to Register returns a nil driver and an
\* ErrNotFound carrying the requested name and the fixed type tag, whatever
\* else is registered.
C2_UnregisteredNotFound ==
    /\ \A n \in Names :
          registered[n] = <<>> =>
              GetMap(schedOpsRegistry, n) =
                  [driver |-> NilDriver,
                   err |-> [type |-> "ErrNotFound", ID |-> n,
                            Type |-> "Portworx Scheduler Operator"]]
    /\ (regCall.op = "Get" /\ registered[regCall.name] = <<>>) =>
          /\ regCall.driver = NilDriver
          /\ regCall.err.type = "ErrNotFound"
          /\ regCall.err.ID = regCall.name
          /\ regCall.err.Type = "Portworx Scheduler Operator"

\* an unregistered name was just looked up while another name is registered
C2_Witness ==
    /\ regCall.op = "Get"
    /\ registered[regCall.name] = <<>>
    /\ regCall.err.ID = regCall.name
    /\ \E m \in Names : registered[m] # <<>>

\* C3: a RunUntil call whose predicate fails on every attempt ends in that
\* failure, not before the elapsed time has reached the timeout and with
\* its sleeps adding up to no more than timeout + interval (the rest of the
\* elapsed time is spent inside attempts); every started call returns.
C3_TimeoutBound ==
    /\ []((kind = "RunUntil" /\ pc = "done" /\ result # NoError) =>
            /\ clock >= timeout
            /\ clock <= timeout + interval + busy
            /\ sleeps * interval <= timeout + interval)
    /\ ((kind = "RunUntil" /\ pc = "attempt") ~> (pc = "done"))

\* an always-failing call that returned inside the slack after the timeout
C3_Witness ==
    /\ kind = "RunUntil" /\ pc = "done" /\ result # NoError
    /\ timeout > 0 /\ sleeps >= 2
    /\ clock > timeout /\ busy = 0

\* C4: when the predicate first succeeds on attempt k, RunUntil returns
\* success right after it, having slept k-1 times for interval each, and
\* the predicate is not invoked again in that call.
C4_EarlySuccess ==
    /\ []((kind = "RunUntil" /\ attempts > 0 /\ pc # "attempt"
                /\ opErr = NoError) =>
            /\ pc \in {"done", "idle"}
            /\ result = NoError
            /\ sleeps = attempts - 1
            /\ clock = (attempts - 1) * interval + busy)
    /\ [][(kind = "RunUntil" /\ pc \in {"done", "idle"}) =>
            (attempts' = attempts \/ attempts' = 0)]_vars

\* [fail, fail, success] with interval 10s and timeout 60s has returned
C4_Witness ==
    /\ kind = "RunUntil" /\ pc = "done" /\ result = NoError
    /\ timeout = 60 /\ interval = 10
    /\ attempts = 3 /\ sleeps = 2 /\ clock = 20
    /\ firstErr # NoError

\* C5: a RunUntil call that ends in failure returns exactly the value of
\* its final attempt.
C5_LastFailureOnly ==
    (kind = "RunUntil" /\ pc = "done" /\ result # NoError) => result = opErr

\* a failed call whose first and final attempts produced different values
C5_Witness ==
    /\ kind = "RunUntil" /\ pc = "done"
    /\ result # NoError /\ firstErr # NoError /\ firstErr # opErr

AlwaysFail25 ==
    /\ kind = "RunUntil" /\ pc = "done" /\ result # NoError
    /\ timeout = 25 /\ interval = 10 /\ busy = 0

\* C6 as stated: always failing, interval 10s, timeout 25s, returns failure
\* after exactly 3 attempts at 30s elapsed
C6_ThreeAttempts ==
    AlwaysFail25 => (attempts = 3 /\ clock = 30)

\* C6: always failing with negligible attempt time, interval 10s, timeout
\* 25s: RunUntil returns failure after exactly 4 attempts and 3 sleeps at
\* 30s elapsed; the post-failure checks at 0s, 10s and 20s do not fire.
C6_FourAttempts ==
    AlwaysFail25 => (attempts = 4 /\ sleeps = 3 /\ clock = 30)

\* the always-failing 25s/10s call has returned
C6_Witness ==
    AlwaysFail25 /\ attempts = 4

\* an attempt of the call of that kind has finished and is the latest one
Completed(k) ==
    kind = k /\ attempts > 0 /\ pc \in {"sleeping", "done", "idle"}

\* a pod is fully running: no init container still running and every
\* regular container running
FullyRunning(pod) ==
    /\ ~\E i \in DOMAIN pod.init : pod.init[i]
    /\ ~\E i \in DOMAIN pod.containers : ~pod.containers[i]

CountsMatch(dep) ==
    dep.available = dep.replicas /\ dep.ready = dep.replicas

\* C7 as stated: an attempt of the readiness predicate that read the
\* deployment and resolved its pods succeeds iff both replica counts equal
\* the desired count and every resolved pod (possibly none) is fully running
C7_ReadyIffCountsAndPods ==
    (Completed("deployment") /\ lastObs.get.err = NoError
        /\ lastObs.pods.err = NoError) =>
        (opErr = NoError <=>
            /\ CountsMatch(lastObs.get.dep)
            /\ \A i \in DOMAIN lastObs.pods.pods :
                  FullyRunning(lastObs.pods.pods[i]))

\* C7: an attempt of the readiness predicate succeeds iff the deployment
\* was read, both replica counts equal the desired count, the pods were
\* resolved without error, at least one pod was resolved and every
\* resolved pod is fully running; every other attempt that read the
\* deployment fails with ErrAppNotReady.
C7_ReadyIffCountsAndSomePods ==
    Completed("deployment") =>
        /\ opErr = NoError <=>
              /\ lastObs.get.err = NoError
              /\ CountsMatch(lastObs.get.dep)
              /\ lastObs.listed
              /\ lastObs.pods.err = NoError
              /\ lastObs.pods.pods # <<>>
              /\ \A i \in DOMAIN lastObs.pods.pods :
                    FullyRunning(lastObs.pods.pods[i])
        /\ (lastObs.get.err = NoError /\ opErr # NoError) =>
              (opErr.type = "ErrAppNotReady" /\ opErr.ID = DeploymentName)

\* a readiness attempt succeeded on matching counts and two running pods
C7_Witness ==
    /\ Completed("deployment") /\ opErr = NoError
    /\ lastObs.get.dep.replicas > 0
    /\ Len(lastObs.pods.pods) = 2

\* C8: a teardown attempt that got the API's not-found answer for the
\* deployment succeeds without listing replica sets or pods, so the call
\* returns nil right after it; when it is the first attempt the call has
\* made one attempt and no sleep.
C8_NotFoundIsSuccess ==
    (Completed("teardown")
        /\ lastObs.get.err
             = ErrNotFoundStatus("deployments.apps", DeploymentName)) =>
        /\ opErr = NoError
        /\ ~lastObs.listed
        /\ pc \in {"done", "idle"}
        /\ result = NoError
        /\ sleeps = attempts - 1
        /\ attempts = 1 => (sleeps = 0 /\ clock = busy)

\* the first teardown attempt found the deployment gone and the call ended
C8_Witness ==
    /\ Completed("teardown") /\ pc = "done" /\ attempts = 1
    /\ lastObs.get.err = ErrNotFoundStatus("deployments.apps", DeploymentName)
    /\ result = NoError

\* C9: a teardown attempt that read the deployment fails with
\* ErrAppNotTerminated when the pods cannot be resolved or at least one pod
\* is resolved, and succeeds, ending the call with nil, when the resolved
\* pod set is empty; the call never returns nil after an attempt that
\* resolved a pod.
C9_TerminatedIffNoPods ==
    (Completed("teardown") /\ lastObs.get.err = NoError) =>
        /\ lastObs.listed
        /\ opErr = NoError <=>
              (lastObs.pods.err = NoError /\ lastObs.pods.pods = <<>>)
        /\ opErr # NoError =>
              (opErr.type = "ErrAppNotTerminated" /\ opErr.ID = DeploymentName)
        /\ opErr = NoError => (pc \in {"done", "idle"} /\ result = NoError)
        /\ Len(lastObs.pods.pods) > 0 => result # NoError

\* after failed attempts, one found the deployment's replica set without
\* pods and the teardown call returned nil
C9_Witness ==
    /\ Completed("teardown") /\ pc = "done" /\ result = NoError
    /\ attempts >= 2
    /\ lastObs.get.err = NoError
    /\ lastObs.rs # NoReplicaSet
    /\ lastObs.pods.pods = <<>>

\* C10: an attempt of the claim predicate succeeds iff it read the claim in
\* phase Bound; on any other phase it fails with ErrPVCNotReady and the call
\* goes on, returning that failure only once 5 minutes have elapsed, after
\* sleeping 10 seconds between consecutive attempts; nil is returned only
\* after an attempt that saw Bound.
C10_BoundOrRetry ==
    Completed("pvc") =>
        /\ opErr = NoError <=>
              (lastObs.get.err = NoError /\ lastObs.get.pvc.phase = "Bound")
        /\ (lastObs.get.err = NoError /\ lastObs.get.pvc.phase # "Bound") =>
              /\ opErr.type = "ErrPVCNotReady"
              /\ opErr.ID = ClaimName
              /\ pc = "sleeping" \/ clock >= 5 * 60
        /\ result = NoError =>
              (lastObs.get.err = NoError /\ lastObs.get.pvc.phase = "Bound")
        /\ (pc # "sleeping" /\ result # NoError) =>
              /\ result = opErr
              /\ clock >= 5 * 60
              /\ attempts = sleeps + 1
              /\ clock = sleeps * 10 + busy

\* the claim was still Lost at the attempt made 5 minutes into the call
C10_Witness ==
    /\ Completed("pvc") /\ pc = "done"
    /\ result.type = "ErrPVCNotReady"
    /\ lastObs.get.pvc.phase = "Lost"
    /\ attempts = 31 /\ clock = 5 * 60

\* the condition breaks node readiness: Ready not True, or one of the five
\* pressure conditions not False
Offending(c) ==
    \/ (c.type = "Ready" /\ c.status # "True")
    \/ (c.type \in {"OutOfDisk", "MemoryPressure", "DiskPressure",
                    "NetworkUnavailable", "InodePressure"}
          /\ c.status # "False")

\* C11: for a node that can be fetched, IsNodeReady returns nil iff no
\* condition of the list is offending (a type missing from the list is no
\* violation), and otherwise an error naming the first offending condition
\* in list order with its message, status and reason.
C11_NodeReadyIffNoOffender ==
    (fn = "IsNodeReady" /\ output.applied /\ input.err = NoError) =>
        /\ output.err = NoError <=>
              \A i \in DOMAIN input.conditions : ~Offending(input.conditions[i])
        /\ output.err # NoError =>
              \E i \in DOMAIN input.conditions :
                  /\ Offending(input.conditions[i])
                  /\ \A j \in 1..(i - 1) : ~Offending(input.conditions[j])
                  /\ output.err.ID = NodeName
                  /\ output.err.Cause =
                        <<input.conditions[i].type, input.conditions[i].message,
                          input.conditions[i].status, input.conditions[i].reason>>

\* ready=false and no pressure condition in the list: the error names Ready
C11_Witness ==
    /\ fn = "IsNodeReady" /\ output.applied /\ input.err = NoError
    /\ Len(input.conditions) = 2
    /\ input.conditions[1].type = "KernelDeadlock"
    /\ input.conditions[2].type = "Ready"
    /\ input.conditions[2].status = "False"
    /\ output.err.Cause[1] = "Ready"

\* C12: when the replica sets are listed without error and none of them has
\* an owner reference naming the deployment, GetDeploymentPods returns no
\* pods and a nil error, and does not list pods.
C12_NoOwnedReplicaSet ==
    (fn = "GetDeploymentPods" /\ output.applied
        /\ input.rs.err = NoError
        /\ \A i \in DOMAIN input.rs.items :
              \A k \in DOMAIN input.rs.items[i].owners :
                  input.rs.items[i].owners[k] # DeploymentName) =>
        /\ output.res.pods = <<>>
        /\ output.res.err = NoError
        /\ ~output.listedPods

\* two replica sets of another owner, and a pod of the first of them
C12_Witness ==
    /\ fn = "GetDeploymentPods" /\ output.applied
    /\ input.rs.err = NoError
    /\ Len(input.rs.items) = 2
    /\ \A i \in DOMAIN input.rs.items : input.rs.items[i].owners = <<"other">>
    /\ Len(input.pods.items) > 0
    /\ input.pods.items[1].owners = <<input.rs.items[1].name>>
    /\ output.res.pods = <<>>

\* the pods of the listing owned by some replica set the deployment owns
PodsOfDeployment(rsItems, podItems) ==
    {podItems[j] : j \in
        {j \in DOMAIN podItems :
            \E i \in DOMAIN rsItems :
                /\ \E k \in DOMAIN rsItems[i].owners :
                      rsItems[i].owners[k] = DeploymentName
                /\ \E k \in DOMAIN podItems[j].owners :
                      podItems[j].owners[k] = rsItems[i].name}}

\* C16: when both listings succeed, GetDeploymentPods returns exactly the
\* pods owned by any replica set that the deployment owns.
C16_AllOwnedReplicaSets ==
    (fn = "GetDeploymentPods" /\ output.applied
        /\ input.rs.err = NoError /\ input.pods.err = NoError) =>
        {output.res.pods[i] : i \in DOMAIN output.res.pods}
            = PodsOfDeployment(input.rs.items, input.pods.items)

\* C19: IsPodRunning is true iff no init container status is Running and
\* every container status is Running; an init container still Running
\* makes it false whatever the containers are.
C19_RunningIffNoInitAndAll ==
    (fn = "IsPodRunning" /\ output.applied) =>
        /\ output.running <=>
              /\ \A i \in DOMAIN input.init : ~input.init[i]
              /\ \A i \in DOMAIN input.containers : input.containers[i]
        /\ (\E i \in DOMAIN input.init : input.init[i]) => ~output.running

\* an init container still runs while both containers run
C19_Witness ==
    /\ fn = "IsPodRunning" /\ output.applied
    /\ input.init = <<FALSE, TRUE>>
    /\ input.containers = <<TRUE, TRUE>>
    /\ ~output.running

\* C13: in ValidateDeployement and ValidatePersistentVolumeClaim an attempt
\* whose Get fails, with not-found or any other error, fails with that very
\* error and is retried until the timeout, and nil is returned only after
\* an attempt whose Get succeeded; the teardown predicate alone turns the
\* API's not-found answer into success.
C13_NotFoundOnlyInTeardown ==
    /\ \A k \in {"deployment", "pvc"} :
          Completed(k) =>
              /\ lastObs.get.err # NoError =>
                    /\ opErr = lastObs.get.err
                    /\ result # NoError
                    /\ pc = "sleeping" \/ clock >= timeout
              /\ result = NoError => lastObs.get.err = NoError
    /\ (Completed("teardown")
          /\ lastObs.get.err
               = ErrNotFoundStatus("deployments.apps", DeploymentName)) =>
          result = NoError

\* the deployment was still not found 10 minutes into ValidateDeployement
C13_Witness ==
    /\ Completed("deployment") /\ pc = "done"
    /\ lastObs.get.err = ErrNotFoundStatus("deployments.apps", DeploymentName)
    /\ result = lastObs.get.err
    /\ attempts = 61 /\ clock = 10 * 60

\* C15: Get of a registered name returns the registered driver itself with
\* a nil error, and no Get, successful or failing, changes the registry:
\* the map holds exactly what the Register calls put there.
C15_GetLeavesRegistry ==
    /\ [](/\ \A n \in Names :
               /\ registered[n] = <<>> <=> schedOpsRegistry[n] = Absent
               /\ registered[n] # <<>> =>
                     schedOpsRegistry[n] = LastRegistered(n)
          /\ (regCall.op = "Get" /\ registered[regCall.name] # <<>>) =>
               /\ regCall.driver = schedOpsRegistry[regCall.name]
               /\ regCall.err = NoRegError)
    /\ [][(regCall'.op = "Get" /\ registered' = registered) =>
            schedOpsRegistry' = schedOpsRegistry]_vars

\* a registered driver was just resolved while another name has no entry
C15_Witness ==
    /\ regCall.op = "Get"
    /\ registered[regCall.name] # <<>>
    /\ regCall.driver \in Drivers
    /\ \E m \in Names : registered[m] = <<>> /\ schedOpsRegistry[m] = Absent

\* C14: AddLabelOnNode and RemoveLabelOnNode read the node at most 5 times
\* and always return; the node object an attempt mutates and passes to
\* Update is the one read in that attempt; the first successful Update
\* ends the call, and so does a failed node read, whose error is returned.
C14_BoundedFreshRetries ==
    /\ [](/\ retryCnt <= 5
          /\ failedUpdates <= retryCnt
          /\ nodeRead.at = retryCnt
          /\ (retryCnt >= 1 /\ nodeRead.err = NoError) =>
                node.version = nodeRead.node.version
          /\ labelPc = "update" => nodeRead.err = NoError
          /\ updateOk => (labelPc = "done" /\ labelRet = NoError)
          /\ nodeRead.err # NoError =>
                (labelPc = "done" /\ labelRet = nodeRead.err))
    /\ (labelPc \in {"loop", "update"}) ~> (labelPc = "done")

\* after a failed Update the node was changed by another client and is read
\* again, in the third attempt, before the next Update
C14_Witness ==
    /\ labelPc = "update" /\ retryCnt = 3 /\ failedUpdates = 2
    /\ nodeRead.node.version = 2
    /\ node.version = 2

\* C17: AddLabelOnNode returns nil only if an attempt read the label
\* already equal to the value or an Update succeeded; after 5 attempts
\* whose Updates all failed it returns a non-nil error.
C17_AddFailsAfterRetries ==
    (labelOp = "add" /\ labelPc = "done") =>
        /\ labelRet = NoError =>
              (updateOk \/ (nodeRead.err = NoError
                              /\ nodeRead.node.label = LabelValue))
        /\ failedUpdates = 5 => labelRet # NoError

\* C18: when RemoveLabelOnNode returns nil the label is absent from the
\* node as last read or written by the call: the last read showed no such
\* key or an Update removing it succeeded; it does not return nil after 5
\* attempts that each read the key and failed to update the node.
C18_RemoveNilMeansAbsent ==
    (labelOp = "remove" /\ labelPc = "done" /\ labelRet = NoError) =>
        /\ updateOk \/ (nodeRead.err = NoError
                         /\ nodeRead.node.label = NoLabel)
        /\ failedUpdates < 5

\* the attempts a call makes when run alone: up to the first success, or
\* one per interval until the timeout has elapsed
AttemptsAlone(c) ==
    LET last == (c.timeout \div ConcInterval) + 1
    IN  IF c.need \in 1..last THEN c.need ELSE last

ResultAlone(c) ==
    IF c.need \in 1..((c.timeout \div ConcInterval) + 1) THEN "ok"
    ELSE "timeout"

\* C20: the attempts of one invocation are strictly sequential: at most one
\* is in flight, and attempt i+1 starts only after attempt i returned and
\* the sleep after it completed; concurrent invocations share no state: a
\* step of one leaves the other as it was, and the outcome and attempt
\* count of each are those of the same call run alone.
C20_SequentialAndIndependent ==
    /\ [](\A p \in Invocations :
             /\ calls[p].inFlight <= 1
             /\ calls[p].inFlight = 1 <=> calls[p].pc = "running"
             /\ calls[p].attempts =
                   calls[p].sleeps
                     + (IF calls[p].pc \in {"running", "sleeping", "done"}
                        THEN 1 ELSE 0)
             /\ calls[p].elapsed = ConcInterval * calls[p].sleeps
             /\ calls[p].pc = "done" =>
                   /\ calls[p].attempts = AttemptsAlone(calls[p])
                   /\ calls[p].result = ResultAlone(calls[p]))
    /\ [][\A p, q \in Invocations :
             (p # q /\ calls'[p] # calls[p]) => calls'[q] = calls[q]]_vars

\* one invocation has timed out after 3 attempts while the other is in its
\* second attempt
C20_Witness ==
    /\ calls[1].pc = "done" /\ calls[1].attempts = 3
    /\ calls[1].result = "timeout"
    /\ calls[2].pc = "running" /\ calls[2].attempts = 2

====
